---------------------------- MODULE Spec2Model ----------------------------
(***************************************************************************)
(* Model of the refactoring scripts of claude-workbench:                   *)
(*   apply_platform_refactor.py, update_cli_runner.py,                     *)
(*   src-tauri/fix_utf8.py and src-tauri/src/process/fix_mutex.py,         *)
(* and of the Rust helper truncate_utf8_safe that fix_utf8.py inserts.     *)
(*                                                                         *)
(* A text buffer is a sequence of tokens.  A token is either a line        *)
(* terminator ("LF" for \n, "CRLF" for \r\n) or a piece of text that the   *)
(* scripts treat as a unit: a literal anchor, a literal payload, or the    *)
(* span one of the scripts' regular expressions matches.  Anchors that     *)
(* contain \n are sequences of several tokens.                             *)
(***************************************************************************)
EXTENDS Integers, Sequences, FiniteSets, TLC

VARIABLES
    script,      \* the script that was invoked
    linesep,     \* os.linesep of the platform the script runs on
    disk,        \* file name -> content on disk (tokens)
    unreadable,  \* files whose open(..., 'r') raises (missing, permission, encoding)
    pc,          \* the function about to run, or "success" / "except" / "done"
    run,         \* number of the current invocation of the script
    original,    \* file -> content as returned by f.read() in this invocation
    current,     \* file -> content passed to f.write() in this invocation
    written,     \* files opened with 'w' in this invocation
    stdout,      \* lines printed in this invocation
    exitStatus,  \* exit status of the finished invocation, -1 while running
    disk0,       \* the disk when the current invocation started
    ts,          \* truncate_utf8_safe: s, as bytes
    tmax,        \* truncate_utf8_safe: max_bytes
    tindex,      \* truncate_utf8_safe: index
    tpc,         \* truncate_utf8_safe: position in the function
    tresult      \* truncate_utf8_safe: the returned slice

fileVars  == <<script, linesep, disk, unreadable, pc, run, original, current,
               written, stdout, exitStatus, disk0>>
truncVars == <<ts, tmax, tindex, tpc, tresult>>
vars      == <<fileVars, truncVars>>

---------------------------------------------------------------------------
(* Bounds *)

\* total number of chunks of text on disk when a script starts
MaxChunks == 2
\* number of times the same script is invoked in a row
MaxRuns == 2
\* number of characters of the string given to truncate_utf8_safe
MaxChars == 3
\* number of files of a script that cannot be read
MaxUnreadable == 1

---------------------------------------------------------------------------
(* Sequences of tokens: the string operations the scripts use *)

Min(a, b) == IF a < b THEN a ELSE b

\* s[i:] of Python, i counted from 0
Drop(s, i) == SubSeq(s, i + 1, Len(s))

\* s[:i] of Python
Take(s, i) == SubSeq(s, 1, Min(i, Len(s)))

\* s.startswith(p)
StartsWith(s, p) == Len(p) <= Len(s) /\ SubSeq(s, 1, Len(p)) = p

\* p in s
Contains(s, p) == \E i \in 0..(Len(s) - Len(p)) : StartsWith(Drop(s, i), p)

\* a mutant of Replace: count = 1, only the leftmost occurrence is replaced
RECURSIVE ReplaceFirst(_, _, _)
ReplaceFirst(s, old, new) ==
    IF s = <<>> THEN <<>>
    ELSE IF StartsWith(s, old) THEN new \o Drop(s, Len(old))
    ELSE <<Head(s)>> \o ReplaceFirst(Tail(s), old, new)

\* s.replace(old, new) and re.sub(re.escape(old), new, s): every
\* non-overlapping occurrence, leftmost first
RECURSIVE Replace(_, _, _)
Replace(s, old, new) ==
    IF s = <<>> THEN <<>>
    ELSE IF StartsWith(s, old) THEN new \o Replace(Drop(s, Len(old)), old, new)
    ELSE <<Head(s)>> \o Replace(Tail(s), old, new)

\* number of non-overlapping occurrences of p in s, as re.findall counts them
RECURSIVE Count(_, _)
Count(s, p) ==
    IF s = <<>> THEN 0
    ELSE IF StartsWith(s, p) THEN 1 + Count(Drop(s, Len(p)), p)
    ELSE Count(Tail(s), p)

\* s.split('\n'): the lines without their terminators; always at least one
RECURSIVE Split(_)
Split(s) ==
    IF s = <<>> THEN << <<>> >>
    ELSE IF Head(s) = "LF" THEN << <<>> >> \o Split(Tail(s))
    ELSE LET rest == Split(Tail(s))
         IN  << <<Head(s)>> \o Head(rest) >> \o Tail(rest)

\* '\n'.join(lines)
RECURSIVE Join(_)
Join(lines) ==
    IF Len(lines) = 0 THEN <<>>
    ELSE IF Len(lines) = 1 THEN lines[1]
    ELSE lines[1] \o <<"LF">> \o Join(Tail(lines))

\* f.readlines(): the lines with their terminators; none for an empty file
RECURSIVE ReadLinesFrom(_, _)
ReadLinesFrom(s, line) ==
    IF s = <<>> THEN (IF line = <<>> THEN <<>> ELSE <<line>>)
    ELSE IF Head(s) = "LF"
         THEN <<line \o <<"LF">>>> \o ReadLinesFrom(Tail(s), <<>>)
         ELSE ReadLinesFrom(Tail(s), line \o <<Head(s)>>)

ReadLines(s) == ReadLinesFrom(s, <<>>)

\* ''.join(lines), what f.writelines(lines) writes
RECURSIVE Concat(_)
Concat(lines) ==
    IF lines = <<>> THEN <<>> ELSE Head(lines) \o Concat(Tail(lines))

---------------------------------------------------------------------------
(* Text-mode file I/O: open(path, 'r' / 'w', encoding='utf-8') *)

\* f.read() in text mode with the default newline=None: universal newlines,
\* every \r\n is handed to the program as \n (a lone \r, which read() turns
\* into \n as well, is not among the tokens)
RECURSIVE ReadText(_)
ReadText(bytes) ==
    IF bytes = <<>> THEN <<>>
    ELSE (IF Head(bytes) = "CRLF" THEN <<"LF">> ELSE <<Head(bytes)>>)
         \o ReadText(Tail(bytes))

\* f.write(content) in text mode with the default newline=None: every \n is
\* written as os.linesep
RECURSIVE WriteText(_, _)
WriteText(content, sep) ==
    IF content = <<>> THEN <<>>
    ELSE (IF Head(content) = "LF" THEN <<sep>> ELSE <<Head(content)>>)
         \o WriteText(Tail(content), sep)

---------------------------------------------------------------------------
(* apply_platform_refactor.py: the patches of each function *)

UsePlatform == "use super::platform;"
UseConfig   == "use super::config::get_claude_execution_config;"
UsePaths    == "use super::paths::get_claude_dir;"
UseOther    == "use super::other;"

\* the tokens s with s.startswith('use super::')
UseSuper == {UsePlatform, UseConfig, UsePaths, UseOther}

\* update_cli_runner, patch 1: the import, inserted without a guard
cli_runner_import(c) ==
    Replace(c, <<UseConfig>>, <<UseConfig, "LF", UsePlatform>>)

\* update_cli_runner, patch 2
cli_runner_calls(c) ==
    Replace(c, <<"resolve_cmd_wrapper_tokio(program)">>,
               <<"platform::resolve_cmd_wrapper(program)">>)

\* update_cli_runner, patch 3: the span the pattern matches (doc comment,
\* Windows function, Unix stub) is one token; the pattern ends with \n
cli_runner_remove_fn(c) ==
    Replace(c, <<"fn resolve_cmd_wrapper_tokio (windows, not windows)", "LF">>, <<>>)

\* update_cli_runner, patch 4: a three-line anchor, a two-line payload
cli_runner_no_window(c) ==
    Replace(c, <<"    // On Windows, ensure no console window", "LF",
                 "    #[cfg(windows)]", "LF",
                 "    cmd.creation_flags(0x08000000);">>,
               <<"    // Apply platform-specific no-window configuration", "LF",
                 "    platform::apply_no_window_async(&mut cmd);">>)

cli_runner_content(c) ==
    cli_runner_no_window(cli_runner_remove_fn(cli_runner_calls(cli_runner_import(c))))

\* a mutant of add_platform_import: the guard is dropped
add_platform_import_unguarded(c) ==
    Replace(c, <<UsePaths>>, <<UsePaths, "LF", UsePlatform>>)

\* update_config and update_hooks: the guarded import
add_platform_import(c) ==
    IF ~Contains(c, <<UsePlatform>>)
    THEN Replace(c, <<UsePaths>>, <<UsePaths, "LF", UsePlatform>>)
    ELSE c

config_no_window(c) ==
    Replace(c, <<"        cmd.creation_flags(0x08000000);">>,
               <<"        platform::apply_no_window(&mut cmd);">>)

config_content(c) == config_no_window(add_platform_import(c))

hooks_no_window(c) ==
    Replace(c, <<"    // Add CREATE_NO_WINDOW flag on Windows", "LF",
                 "    #[cfg(windows)]", "LF",
                 "    {", "LF",
                 "        cmd.creation_flags(0x08000000);", "LF",
                 "    }">>,
               <<"    // Apply platform-specific no-window configuration", "LF",
                 "    platform::apply_no_window(&mut cmd);">>)

hooks_content(c) == hooks_no_window(add_platform_import(c))

\* update_prompt_enhancer: for i, line in enumerate(lines): the first line
\* that starts with 'use super::' gets the import after it, then break
RECURSIVE insert_after_first_use(_)
insert_after_first_use(lines) ==
    IF lines = <<>> THEN <<>>
    ELSE IF Head(lines) # <<>> /\ Head(Head(lines)) \in UseSuper
         THEN <<Head(lines), <<UsePlatform>>>> \o Tail(lines)
         ELSE <<Head(lines)>> \o insert_after_first_use(Tail(lines))

prompt_enhancer_import(c) ==
    IF ~Contains(c, <<UsePlatform>>)
    THEN Join(insert_after_first_use(Split(c)))
    ELSE c

prompt_enhancer_no_window(c) ==
    LET c1 == Replace(c, <<"        command.creation_flags(0x08000000);">>,
                         <<"        platform::apply_no_window(&mut command);">>)
        c2 == Replace(c1, <<"            cmd.creation_flags(0x08000000);">>,
                          <<"            platform::apply_no_window(&mut cmd);">>)
    IN  Replace(c2, <<"        npm_cmd.creation_flags(0x08000000);">>,
                    <<"        platform::apply_no_window(&mut npm_cmd);">>)

prompt_enhancer_content(c) == prompt_enhancer_no_window(prompt_enhancer_import(c))

\* update_mod, patch 1: the guarded module declarations
mod_declare(c) ==
    IF ~Contains(c, <<"mod platform;">>)
    THEN Replace(c, <<"mod session_history;">>,
                    <<"mod session_history;", "LF", "mod platform;", "LF",
                      "mod file_ops;">>)
    ELSE c

\* update_mod, patch 2: the re-export, inserted without a guard
mod_export(c) ==
    Replace(c, <<"use self::project_store::ProjectStore;">>,
               <<"use self::project_store::ProjectStore;", "LF",
                 "pub use file_ops::{list_directory_contents, search_files};">>)

\* update_mod, patch 3: the span the pattern matches is one token; the
\* pattern ends with \n
mod_remove_fn(c) == Replace(c, <<"fn find_claude_binary", "LF">>, <<>>)

mod_content(c) == mod_remove_fn(mod_export(mod_declare(c)))

---------------------------------------------------------------------------
(* src-tauri/fix_utf8.py *)

FnTruncate == "fn truncate_utf8_safe"

\* TRUNCATE_FUNCTION: \n, the doc comment, the function, \n\n.  The token
\* FnTruncate stands for the function from its header to its closing brace.
TRUNCATE_FUNCTION ==
    <<"LF", "/// UTF-8 safe truncation", "LF", FnTruncate, "LF", "LF">>

\* the anchor of fix_claude_rs: \n\n, doc comment, attribute, signature
claude_anchor ==
    <<"LF", "LF", "/// Enhance a prompt using local Claude  Code CLI", "LF",
      "#[tauri::command]", "LF", "pub async fn enhance_prompt(">>

\* the anchor of fix_acemcp_rs: \n, attribute, signature
acemcp_anchor ==
    <<"LF", "#[tauri::command]", "LF", "pub async fn enhance_prompt_with_context(">>

\* re.sub(pattern, TRUNCATE_FUNCTION + r'\1', content) under the guard
\* 'fn truncate_utf8_safe' not in content
insert_truncate(c, anchor) ==
    IF ~Contains(c, <<FnTruncate>>)
    THEN Replace(c, anchor, TRUNCATE_FUNCTION \o anchor)
    ELSE c

\* the [OK] line the guarded step prints: which branch of the if ran, not
\* whether re.sub found the pattern
insert_truncate_message(c) ==
    IF ~Contains(c, <<FnTruncate>>)
    THEN "[OK] truncate_utf8_safe added"
    ELSE "[OK] truncate_utf8_safe already present"

claude_slices(c) ==
    LET c1 == Replace(c, <<"&trimmed_prompt[..MAX_PROMPT_LENGTH]">>,
                         <<"truncate_utf8_safe(trimmed_prompt, MAX_PROMPT_LENGTH)">>)
    IN  Replace(c1, <<"&context_str[..MAX_CONTEXT_LENGTH]">>,
                    <<"truncate_utf8_safe(&context_str, MAX_CONTEXT_LENGTH)">>)

claude_content(c) == claude_slices(insert_truncate(c, claude_anchor))

acemcp_slices(c) ==
    LET c1 == Replace(c, <<"&context_result[..max_length]">>,
                         <<"truncate_utf8_safe(&context_result, max_length)">>)
    IN  Replace(c1, <<"&trimmed_context[..available_space]">>,
                    <<"truncate_utf8_safe(&trimmed_context, available_space)">>)

acemcp_content(c) == acemcp_slices(insert_truncate(c, acemcp_anchor))

---------------------------------------------------------------------------
(* src-tauri/src/process/fix_mutex.py *)

\* lines[:628]
KeepHead == 628
\* lines[640:]
KeepFrom == 640

\* new_block: thirteen lines, the sixth and the last one empty
new_block ==
    <<"// First, collect all process IDs", "LF",
      "let run_ids: Vec<i64> = {", "LF",
      "let processes = processes_lock.lock()?;", "LF",
      "processes.keys().cloned().collect()", "LF",
      "}; // Lock is released here", "LF",
      "LF",
      "// Then check each process", "LF",
      "for run_id in run_ids {", "LF",
      "if !self.is_process_running(run_id).await? {", "LF",
      "finished_runs.push(run_id);", "LF",
      "}", "LF",
      "}", "LF",
      "LF">>

\* output_lines = lines[:628]; append(new_block); extend(lines[640:]);
\* writelines(output_lines)
registry_content(c) ==
    LET lines == ReadLines(c)
    IN  Concat(Take(lines, KeepHead) \o <<new_block>> \o Drop(lines, KeepFrom))

---------------------------------------------------------------------------
(* update_cli_runner.py: the stand-alone script for cli_runner.rs *)

\* patches 1 and 2 are those of update_cli_runner; patches 3 to 5 follow.
\* The span each regular expression matches is one token.
cli_script_remove_fns(c) ==
    LET c1 == Replace(c, <<"fn resolve_cmd_wrapper_tokio (windows)">>, <<>>)
    IN  Replace(c1, <<"fn resolve_cmd_wrapper_tokio (not windows)">>, <<>>)

cli_script_no_window(c) ==
    Replace(c, <<"    cmd.creation_flags(0x08000000);">>,
               <<"    platform::apply_no_window_async(&mut cmd);">>)

cli_script_kill(c) ==
    Replace(c, <<"let kill_result = if cfg!(windows) {..};">>,
               <<"let kill_result = platform::kill_process_tree(pid);">>)

cli_script_content(c) ==
    cli_script_kill(cli_script_no_window(cli_script_remove_fns(
        cli_runner_calls(cli_runner_import(c)))))

---------------------------------------------------------------------------
(* The scripts, their functions in call order, and the file of each *)

Scripts == {"apply_platform_refactor", "fix_utf8", "fix_mutex", "update_cli_runner"}

\* the calls of each script's __main__, in order
Jobs(s) ==
    CASE s = "apply_platform_refactor" ->
             <<"update_cli_runner", "update_config", "update_hooks",
               "update_prompt_enhancer", "update_mod">>
      [] s = "fix_utf8" -> <<"fix_claude_rs", "fix_acemcp_rs">>
      [] s = "fix_mutex" -> <<"fix_mutex">>
      [] s = "update_cli_runner" -> <<"update_cli_runner_script">>
      [] OTHER -> <<>>

\* filepath / file_path of each function
FileOf(j) ==
    CASE j = "update_cli_runner" -> "cli_runner.rs"
      [] j = "update_config" -> "config.rs"
      [] j = "update_hooks" -> "hooks.rs"
      [] j = "update_prompt_enhancer" -> "prompt_enhancer.rs"
      [] j = "update_mod" -> "mod.rs"
      [] j = "fix_claude_rs" -> "claude.rs"
      [] j = "fix_acemcp_rs" -> "acemcp.rs"
      [] j = "fix_mutex" -> "registry.rs"
      [] j = "update_cli_runner_script" -> "cli_runner.rs"

\* what each function makes of the content it read
Content(j, c) ==
    CASE j = "update_cli_runner" -> cli_runner_content(c)
      [] j = "update_config" -> config_content(c)
      [] j = "update_hooks" -> hooks_content(c)
      [] j = "update_prompt_enhancer" -> prompt_enhancer_content(c)
      [] j = "update_mod" -> mod_content(c)
      [] j = "fix_claude_rs" -> claude_content(c)
      [] j = "fix_acemcp_rs" -> acemcp_content(c)
      [] j = "fix_mutex" -> registry_content(c)
      [] j = "update_cli_runner_script" -> cli_script_content(c)

\* what each function prints, given the content it read
Printed(j, c) ==
    CASE j = "update_cli_runner" -> <<"Updated cli_runner.rs">>
      [] j = "update_config" -> <<"Updated config.rs">>
      [] j = "update_hooks" -> <<"Updated hooks.rs">>
      [] j = "update_prompt_enhancer" -> <<"Updated prompt_enhancer.rs">>
      [] j = "update_mod" -> <<"Updated mod.rs">>
      [] j = "fix_claude_rs" ->
             <<insert_truncate_message(c), "[OK] fixed trimmed_prompt",
               "[OK] fixed context_str", "[SUCCESS] claude.rs">>
      [] j = "fix_acemcp_rs" ->
             <<insert_truncate_message(c), "[OK] fixed context_result",
               "[OK] fixed trimmed_context", "[SUCCESS] acemcp.rs">>
      [] j = "fix_mutex" -> <<"Successfully fixed Mutex deadlock issue">>
      [] j = "update_cli_runner_script" -> <<"cli_runner.rs updated successfully">>

\* the scripts whose __main__ wraps the calls in try / except Exception
HasTry(s) == s \in {"apply_platform_refactor", "fix_utf8"}

\* what __main__ prints before the first call
Banner(s) == IF s = "fix_utf8" THEN <<"fix_utf8: start">> ELSE <<>>

FilesOf(s) == {FileOf(Jobs(s)[i]) : i \in 1..Len(Jobs(s))}

\* pc after function j returned
After(s, j) ==
    LET i == CHOOSE k \in 1..Len(Jobs(s)) : Jobs(s)[k] = j
    IN  IF i < Len(Jobs(s)) THEN Jobs(s)[i + 1]
        ELSE IF HasTry(s) THEN "success" ELSE "done"

---------------------------------------------------------------------------
(* The files a script may find: each a concatenation of chunks *)

Chunks(s, f) ==
    CASE s = "update_cli_runner" ->
             {<<UseConfig>>,
              <<"resolve_cmd_wrapper_tokio(program)">>,
              <<"fn resolve_cmd_wrapper_tokio (windows)">>,
              <<"fn resolve_cmd_wrapper_tokio (not windows)">>,
              <<"    cmd.creation_flags(0x08000000);">>,
              <<"let kill_result = if cfg!(windows) {..};">>,
              <<"LF">>, <<"CRLF">>}
      [] f = "cli_runner.rs" ->
             {<<UseConfig>>,
              <<"resolve_cmd_wrapper_tokio(program)">>,
              <<"fn resolve_cmd_wrapper_tokio (windows, not windows)", "LF">>,
              <<"    // On Windows, ensure no console window", "LF",
                "    #[cfg(windows)]", "LF",
                "    cmd.creation_flags(0x08000000);">>,
              <<"LF">>, <<"CRLF">>}
      [] f = "config.rs" ->
             {<<UsePaths>>, <<UsePlatform>>,
              <<"        cmd.creation_flags(0x08000000);">>,
              <<"fn other() {}">>, <<"LF">>, <<"CRLF">>}
      [] f = "hooks.rs" ->
             {<<UsePaths>>, <<UsePlatform>>,
              <<"    // Add CREATE_NO_WINDOW flag on Windows", "LF",
                "    #[cfg(windows)]", "LF",
                "    {", "LF",
                "        cmd.creation_flags(0x08000000);", "LF",
                "    }">>,
              <<"LF">>, <<"CRLF">>}
      [] f = "prompt_enhancer.rs" ->
             {<<UseOther, "LF">>, <<UseOther, "CRLF">>, <<UsePlatform, "LF">>,
              <<"        command.creation_flags(0x08000000);">>,
              <<"fn other() {}", "LF">>}
      [] f = "mod.rs" ->
             {<<"mod session_history;">>, <<"mod platform;">>,
              <<"use self::project_store::ProjectStore;">>,
              <<"fn find_claude_binary", "LF">>,
              <<"LF">>, <<"CRLF">>}
      [] f = "claude.rs" ->
             {claude_anchor, <<FnTruncate>>,
              <<"&trimmed_prompt[..MAX_PROMPT_LENGTH]">>,
              <<"&context_str[..MAX_CONTEXT_LENGTH]">>,
              <<"LF">>, <<"CRLF">>}
      [] f = "acemcp.rs" ->
             {acemcp_anchor, <<FnTruncate>>,
              <<"&context_result[..max_length]">>,
              <<"&trimmed_context[..available_space]">>,
              <<"LF">>, <<"CRLF">>}
      [] f = "registry.rs" ->
             {<<"line", "LF">>, <<"line", "CRLF">>, <<"line">>, <<"LF">>} \cup
             {new_block}

\* the contents made of exactly n chunks
RECURSIVE ContentsOf(_, _, _)
ContentsOf(s, f, n) ==
    IF n = 0 THEN {<<>>}
    ELSE {a \o b : a \in Chunks(s, f), b \in ContentsOf(s, f, n - 1)}

\* the disks of script s over the files of the jobs js that hold at most n
\* chunks in all; a file in gone is missing and holds nothing
RECURSIVE DisksOver(_, _, _, _)
DisksOver(s, js, gone, n) ==
    IF js = <<>> THEN {<<>>}
    ELSE LET f == FileOf(Head(js))
         IN  UNION {{(f :> c) @@ d :
                        c \in ContentsOf(s, f, IF f \in gone THEN 0 ELSE k),
                        d \in DisksOver(s, Tail(js), gone, n - k)} :
                    k \in (IF f \in gone THEN {0} ELSE 0..n)}

---------------------------------------------------------------------------
(* truncate_utf8_safe (the Rust function of TRUNCATE_FUNCTION) *)

\* the characters of the strings: a, e-acute, the euro sign, an emoji, as
\* their UTF-8 bytes
Utf8Chars == {<<97>>, <<195, 169>>, <<226, 130, 172>>, <<240, 159, 152, 128>>}

\* the valid UTF-8 strings of exactly n characters
RECURSIVE Utf8Strings(_)
Utf8Strings(n) ==
    IF n = 0 THEN {<<>>}
    ELSE {ch \o rest : ch \in Utf8Chars, rest \in Utf8Strings(n - 1)}

\* a mutant of is_char_boundary: every index is taken for a boundary
is_any_index(s, index) == index <= Len(s)

\* str::is_char_boundary: 0 and len are boundaries, an index past len is
\* not, and otherwise the byte at index is not a continuation byte 10xxxxxx
is_char_boundary(s, index) ==
    \/ index = 0
    \/ index = Len(s)
    \/ /\ index < Len(s)
       /\ (s[index + 1] < 128 \/ s[index + 1] >= 192)

\* char::len_utf8 of the first character, read off its leading byte
first_len_utf8(s) ==
    IF s[1] < 128 THEN 1
    ELSE IF s[1] < 224 THEN 2
    ELSE IF s[1] < 240 THEN 3
    ELSE 4

\* a mutant of fast_path_return: the empty string instead of s
fast_path_return_empty(s) == <<>>

\* return s;
fast_path_return(s) == s

\* if s.len() <= max_bytes { return s; }
trunc_fast_path ==
    /\ tpc = "entry"
    /\ Len(ts) <= tmax
    /\ tresult' = fast_path_return(ts)
    /\ tpc' = "returned"
    /\ UNCHANGED <<ts, tmax, tindex, fileVars>>

\* let mut index = max_bytes;
trunc_start_scan ==
    /\ tpc = "entry"
    /\ ~(Len(ts) <= tmax)
    /\ tindex' = tmax
    /\ tpc' = "scan"
    /\ UNCHANGED <<ts, tmax, tresult, fileVars>>

\* while index > 0 && !s.is_char_boundary(index) { index -= 1; }
trunc_scan_step ==
    /\ tpc = "scan"
    /\ tindex > 0 /\ ~is_char_boundary(ts, tindex)
    /\ tindex' = tindex - 1
    /\ UNCHANGED <<ts, tmax, tpc, tresult, fileVars>>

\* if index == 0: the first character in full, or "" for an empty string
trunc_first_char ==
    /\ tpc = "scan"
    /\ ~(tindex > 0 /\ ~is_char_boundary(ts, tindex))
    /\ tindex = 0
    /\ tresult' = IF ts = <<>> THEN <<>> ELSE SubSeq(ts, 1, first_len_utf8(ts))
    /\ tpc' = "returned"
    /\ UNCHANGED <<ts, tmax, tindex, fileVars>>

\* else: &s[..index]
trunc_slice ==
    /\ tpc = "scan"
    /\ ~(tindex > 0 /\ ~is_char_boundary(ts, tindex))
    /\ tindex # 0
    /\ tresult' = SubSeq(ts, 1, tindex)
    /\ tpc' = "returned"
    /\ UNCHANGED <<ts, tmax, tindex, fileVars>>

---------------------------------------------------------------------------
(* The scripts as a state machine *)

NoFiles == <<>>

\* a function raised: with try / except the handler runs next, without it
\* the interpreter prints the traceback and exits with status 1
Raise ==
    /\ IF HasTry(script)
       THEN /\ pc' = "except"
            /\ UNCHANGED <<stdout, exitStatus>>
       ELSE /\ pc' = "done"
            /\ stdout' = stdout \o <<"Traceback">>
            /\ exitStatus' = 1
    /\ UNCHANGED <<disk, original, current, written>>

\* one function of a script: open and read, patch in memory, open with 'w'
\* and write, print
RunJob(j) ==
    /\ LET f == FileOf(j)
       IN  IF f \in unreadable
           THEN Raise
           ELSE LET c   == ReadText(disk[f])
                    new == Content(j, c)
                IN  /\ original' = (f :> c) @@ original
                    /\ current' = (f :> new) @@ current
                    /\ written' = written \cup {f}
                    /\ disk' = [disk EXCEPT ![f] = WriteText(new, linesep)]
                    /\ stdout' = stdout \o Printed(j, c)
                    /\ pc' = After(script, j)
                    /\ exitStatus' = IF After(script, j) = "done" THEN 0 ELSE -1
    /\ UNCHANGED <<script, linesep, unreadable, run, disk0, truncVars>>

update_cli_runner ==
    /\ pc = "update_cli_runner"
    /\ RunJob("update_cli_runner")

update_config ==
    /\ pc = "update_config"
    /\ RunJob("update_config")

update_hooks ==
    /\ pc = "update_hooks"
    /\ RunJob("update_hooks")

update_prompt_enhancer ==
    /\ pc = "update_prompt_enhancer"
    /\ RunJob("update_prompt_enhancer")

update_mod ==
    /\ pc = "update_mod"
    /\ RunJob("update_mod")

fix_claude_rs ==
    /\ pc = "fix_claude_rs"
    /\ RunJob("fix_claude_rs")

fix_acemcp_rs ==
    /\ pc = "fix_acemcp_rs"
    /\ RunJob("fix_acemcp_rs")

fix_mutex ==
    /\ pc = "fix_mutex"
    /\ RunJob("fix_mutex")

update_cli_runner_script ==
    /\ pc = "update_cli_runner_script"
    /\ RunJob("update_cli_runner_script")


\* __main__ after the last call of the try block: the closing prints; the
\* script ends and the interpreter exits with status 0
main_success ==
    /\ pc = "success"
    /\ stdout' = stdout \o <<"all done">>
    /\ pc' = "done"
    /\ exitStatus' = 0
    /\ UNCHANGED <<script, linesep, disk, unreadable, run, original, current,
                   written, disk0, truncVars>>

\* except Exception as e: print, traceback.print_exc(); the script ends and
\* the interpreter exits with status 0
main_except ==
    /\ pc = "except"
    /\ stdout' = stdout \o <<"Error", "Traceback">>
    /\ pc' = "done"
    /\ exitStatus' = 0
    /\ UNCHANGED <<script, linesep, disk, unreadable, run, original, current,
                   written, disk0, truncVars>>

\* the operator invokes the same script again on what the last run left
Rerun ==
    /\ pc = "done"
    /\ run < MaxRuns
    /\ run' = run + 1
    /\ pc' = Jobs(script)[1]
    /\ original' = NoFiles
    /\ current' = NoFiles
    /\ written' = {}
    /\ stdout' = Banner(script)
    /\ exitStatus' = -1
    /\ disk0' = disk
    /\ UNCHANGED <<script, linesep, disk, unreadable, truncVars>>

TruncIdle ==
    /\ ts = <<>> /\ tmax = 0 /\ tindex = 0 /\ tpc = "idle" /\ tresult = <<>>

Init ==
    /\ script \in Scripts
    /\ linesep \in {"LF", "CRLF"}
    /\ unreadable \in {U \in SUBSET FilesOf(script) : Cardinality(U) <= MaxUnreadable}
    /\ disk \in DisksOver(script, Jobs(script), unreadable, MaxChunks)
    /\ pc = Jobs(script)[1]
    /\ run = 1
    /\ original = NoFiles
    /\ current = NoFiles
    /\ written = {}
    /\ stdout = Banner(script)
    /\ exitStatus = -1
    /\ disk0 = disk
    /\ TruncIdle

Next ==
    \/ update_cli_runner
    \/ update_config
    \/ update_hooks
    \/ update_prompt_enhancer
    \/ update_mod
    \/ fix_claude_rs
    \/ fix_acemcp_rs
    \/ fix_mutex
    \/ update_cli_runner_script
    \/ main_success
    \/ main_except
    \/ Rerun

Spec == Init /\ [][Next]_vars

FilesIdle ==
    /\ script = "none" /\ linesep = "LF" /\ disk = NoFiles /\ unreadable = {}
    /\ pc = "done" /\ run = MaxRuns /\ original = NoFiles /\ current = NoFiles
    /\ written = {} /\ stdout = <<>> /\ exitStatus = 0 /\ disk0 = NoFiles

TruncInit ==
    /\ FilesIdle
    /\ ts \in UNION {Utf8Strings(n) : n \in 0..MaxChars}
    /\ tmax \in 0..(4 * MaxChars + 1)
    /\ tindex = 0
    /\ tpc = "entry"
    /\ tresult = <<>>

TruncNext ==
    \/ trunc_fast_path
    \/ trunc_start_scan
    \/ trunc_scan_step
    \/ trunc_first_char
    \/ trunc_slice

TruncSpec == TruncInit /\ [][TruncNext]_vars

---------------------------------------------------------------------------
(* Notions the properties are stated in *)

Done == pc = "done"

\* the functions of the invoked script that have returned in this invocation
Returned == {j \in {Jobs(script)[i] : i \in 1..Len(Jobs(script))} :
                FileOf(j) \in DOMAIN current}

InSeq(x, q) == \E i \in 1..Len(q) : q[i] = x

IsPrefix(p, s) == Len(p) <= Len(s) /\ SubSeq(s, 1, Len(p)) = p

IsTerminator(t) == t \in {"LF", "CRLF"}

\* the line terminators of a file, in order
Terminators(bytes) == SelectSeq(bytes, IsTerminator)

\* the length of the character that byte b leads
LeadLen(b) == IF b < 128 THEN 1 ELSE IF b < 224 THEN 2 ELSE IF b < 240 THEN 3 ELSE 4

\* the offsets at which a character of the valid UTF-8 string s starts, and
\* its length: found by decoding s from the front
RECURSIVE BoundariesFrom(_, _)
BoundariesFrom(s, at) ==
    IF at >= Len(s) THEN {Len(s)}
    ELSE {at} \cup BoundariesFrom(s, at + LeadLen(s[at + 1]))

Boundaries(s) == BoundariesFrom(s, 0)

---------------------------------------------------------------------------
(* C1 *)

\* C1: running a script again on what its first run left changes nothing:
\* when the second (or a later) run has ended, every file is as it was when
\* that run started.
C1_RunIsIdempotent == (Done /\ run >= 2) => disk = disk0

---------------------------------------------------------------------------
(* C2 *)

\* C2: when the run has ended, every job whose own file is readable has
\* been executed and has produced the buffer it produces from the content
\* its file had when the run started, whatever happened to the other jobs.
C2_FailureIsIsolated ==
    Done => \A i \in 1..Len(Jobs(script)) :
                LET j == Jobs(script)[i]
                    f == FileOf(j)
                IN  f \notin unreadable =>
                        /\ f \in DOMAIN current
                        /\ current[f] = Content(j, ReadText(disk0[f]))

---------------------------------------------------------------------------
(* C3 *)

\* C3: the slice truncate_utf8_safe returns is a prefix of s that ends on a
\* character boundary of s; it is the first character of s when that
\* character alone is longer than max_bytes, and at most max_bytes long
\* otherwise.
C3_TruncationIsSafe ==
    tpc = "returned" =>
        /\ IsPrefix(tresult, ts)
        /\ Len(tresult) \in Boundaries(ts)
        /\ IF ts # <<>> /\ LeadLen(ts[1]) > tmax
           THEN tresult = SubSeq(ts, 1, LeadLen(ts[1]))
           ELSE Len(tresult) <= tmax

\* max_bytes falls inside a character that is not the first, and the scan
\* has moved back to the start of that character
C3_Witness ==
    /\ tpc = "returned"
    /\ Len(ts) > tmax
    /\ tmax \notin Boundaries(ts)
    /\ Len(tresult) > 0
    /\ Len(tresult) < tmax

---------------------------------------------------------------------------
(* C4 *)

\* C4: a job whose patches left the buffer as it was read does not open its
\* file for writing.
C4_WritesOnlyIfChanged ==
    \A f \in DOMAIN current : current[f] = original[f] => f \notin written

---------------------------------------------------------------------------
(* C5 *)

\* C5: a run in which an exception was raised ends with a non-zero exit
\* status.
C5_FailureExitsNonZero ==
    (Done /\ InSeq("Traceback", stdout)) => exitStatus # 0

---------------------------------------------------------------------------
(* C6 *)

ConfigFlags == <<"        cmd.creation_flags(0x08000000);">>
ConfigApply == <<"        platform::apply_no_window(&mut cmd);">>

\* the tokens the patches of update_config write or remove
ConfigTouched(t) == t \in {"LF", UsePlatform, ConfigFlags[1], ConfigApply[1]}
ConfigUntouched(t) == ~ConfigTouched(t)

\* C6, as stated: when the anchor of the creation_flags patch of
\* update_config occurs more than once, only its leftmost occurrence is
\* replaced and the later ones stay.
C6_FirstMatchOnly ==
    ("config.rs" \in DOMAIN current /\ Count(original["config.rs"], ConfigFlags) >= 2)
        => Count(current["config.rs"], ConfigFlags)
               = Count(original["config.rs"], ConfigFlags) - 1

\* C6, amended: a str.replace / re.sub patch acts on every occurrence of
\* its anchor (no creation_flags anchor is left in config.rs, each one has
\* become a payload; the unguarded import of update_cli_runner follows every
\* occurrence of its anchor; no slice anchor is left in claude.rs), the line
\* insertion of update_prompt_enhancer adds at most one import, and the
\* content of config.rs that is neither anchor nor payload stays as it was.
C6_EveryMatchReplaced ==
    /\ "config.rs" \in DOMAIN current =>
           LET c == original["config.rs"]
               d == current["config.rs"]
           IN  /\ Count(d, ConfigFlags) = 0
               /\ Count(d, ConfigApply) = Count(c, ConfigApply) + Count(c, ConfigFlags)
               /\ SelectSeq(d, ConfigUntouched) = SelectSeq(c, ConfigUntouched)
    /\ "cli_runner.rs" \in DOMAIN current =>
           LET c == original["cli_runner.rs"]
               d == current["cli_runner.rs"]
           IN  /\ Count(d, <<UseConfig>>) = Count(c, <<UseConfig>>)
               /\ Count(d, <<UsePlatform>>)
                      = Count(c, <<UsePlatform>>) + Count(c, <<UseConfig>>)
               /\ Count(d, <<"resolve_cmd_wrapper_tokio(program)">>) = 0
    /\ "claude.rs" \in DOMAIN current =>
           /\ Count(current["claude.rs"], <<"&trimmed_prompt[..MAX_PROMPT_LENGTH]">>) = 0
           /\ Count(current["claude.rs"], <<"&context_str[..MAX_CONTEXT_LENGTH]">>) = 0
    /\ "prompt_enhancer.rs" \in DOMAIN current =>
           Count(current["prompt_enhancer.rs"], <<UsePlatform>>)
               <= Count(original["prompt_enhancer.rs"], <<UsePlatform>>) + 1

\* update_config has patched a buffer that held its anchor twice
C6_Witness ==
    /\ "config.rs" \in DOMAIN current
    /\ Count(original["config.rs"], ConfigFlags) >= 2
    /\ Count(current["config.rs"], ConfigApply) >= 2

---------------------------------------------------------------------------
(* C7 *)

\* the line a function prints to say that it changed its file
AppliedLine(j) ==
    IF j \in {"fix_claude_rs", "fix_acemcp_rs"}
    THEN "[OK] truncate_utf8_safe added"
    ELSE Printed(j, <<>>)[1]

\* C7: a function reports that it updated its file, or that it added the
\* helper, only if it changed the buffer.
C7_AppliedOnlyIfChanged ==
    \A j \in Returned :
        InSeq(AppliedLine(j), stdout)
            => current[FileOf(j)] # original[FileOf(j)]

---------------------------------------------------------------------------
(* C8 *)

\* C8: when s is at most max_bytes long, truncate_utf8_safe returns s.
C8_FastPathIsIdentity ==
    (tpc = "returned" /\ Len(ts) <= tmax) => tresult = ts

\* a non-empty string that fits has been returned
C8_Witness ==
    /\ tpc = "returned"
    /\ ts # <<>>
    /\ Len(ts) <= tmax
    /\ tresult = ts

---------------------------------------------------------------------------
(* C9 *)

\* C9: a file that a function has read and written back has the line
\* terminators it had before, as long as no patch changed the buffer.
C9_LineEndingsKept ==
    \A f \in DOMAIN current :
        current[f] = original[f] => Terminators(disk[f]) = Terminators(disk0[f])

---------------------------------------------------------------------------
(* C10 *)

GuardedJobs == {"update_config", "update_hooks", "update_prompt_enhancer",
                "update_mod", "fix_claude_rs", "fix_acemcp_rs"}

\* the text whose presence makes the guarded step do nothing
GuardText(j) ==
    CASE j \in {"update_config", "update_hooks", "update_prompt_enhancer"} ->
             <<UsePlatform>>
      [] j = "update_mod" -> <<"mod platform;">>
      [] j \in {"fix_claude_rs", "fix_acemcp_rs"} -> <<FnTruncate>>

\* the guarded step of each function
GuardedStep(j, c) ==
    CASE j \in {"update_config", "update_hooks"} -> add_platform_import(c)
      [] j = "update_prompt_enhancer" -> prompt_enhancer_import(c)
      [] j = "update_mod" -> mod_declare(c)
      [] j = "fix_claude_rs" -> insert_truncate(c, claude_anchor)
      [] j = "fix_acemcp_rs" -> insert_truncate(c, acemcp_anchor)

\* the anchor of the guarded step is in the buffer
HasAnchor(j, c) ==
    CASE j \in {"update_config", "update_hooks"} -> Contains(c, <<UsePaths>>)
      [] j = "update_prompt_enhancer" ->
             \E i \in 1..Len(Split(c)) :
                 Split(c)[i] # <<>> /\ Split(c)[i][1] \in UseSuper
      [] j = "update_mod" -> Contains(c, <<"mod session_history;">>)
      [] j = "fix_claude_rs" -> Contains(c, claude_anchor)
      [] j = "fix_acemcp_rs" -> Contains(c, acemcp_anchor)

\* C10: for every guarded insertion that has run: if the guard text was in
\* the buffer read, the guarded step leaves the buffer as it is; if the
\* anchor was in the buffer read, the guard text is in the buffer after the
\* step and in the buffer written, and the step applied to its own result
\* changes nothing.
C10_GuardIsIdempotencyGate ==
    \A j \in Returned \cap GuardedJobs :
        LET c == original[FileOf(j)]
            d == GuardedStep(j, c)
        IN  /\ Contains(c, GuardText(j)) => d = c
            /\ HasAnchor(j, c) =>
                   /\ Contains(d, GuardText(j))
                   /\ Contains(current[FileOf(j)], GuardText(j))
                   /\ GuardedStep(j, d) = d
                   /\ Count(GuardedStep(j, d), GuardText(j)) = Count(d, GuardText(j))

\* the second run of update_config reads the anchor followed by the import
\* that the first run inserted, and inserts nothing
C10_Witness ==
    /\ run = 2
    /\ "config.rs" \in DOMAIN current
    /\ Contains(original["config.rs"], <<UsePaths, "LF", UsePlatform>>)
    /\ Count(current["config.rs"], <<UsePlatform>>) = 1

=============================================================================
